---- MODULE Spec2Model ----
(***************************************************************************)
(* Model of the code runner route (src/app/api/run/route.ts): one POST     *)
(* request handled from the body parse to the response, together with the  *)
(* environment it drives: the workspace directory, the spawned docker      *)
(* client process, the container it starts, the stdio pipes and the        *)
(* deadline timer.                                                         *)
(***************************************************************************)
EXTENDS Integers, Sequences, FiniteSets, TLC

(* ---------------------------- bounds ----------------------------------- *)

\* requests in flight at once in the concurrent model
NumReqs == 2
\* units of output a process may write on each of its output streams
MaxChunks == 2
\* bytes in one block of ASCII output (the unit "A" below)
BlockLen == 200000
\* the model's clock advances in steps of TickMs up to MaxTime
TickMs == 3000
MaxTime == 9000
\* chunks the completion stream yields to the chat proxy
MaxDeltas == 3
\* calls of send() that get past its guard in the chat page, and the chunks
\* each of them reads from its response
MaxSends == 2
MaxReads == 1

(* ------------------------ program constants ---------------------------- *)

LIMIT_SECONDS == 6
LIMIT_MEMORY == "256m"
LIMIT_CPUS == "0.5"
\* code.length > 300_000
CODE_LIMIT == 300000
\* code ?? 137
KILL_CODE == 137
\* the close event's code for a process ended by a signal (null)
NullCode == -1
\* the program of this run never exits
NoExit == -2
\* the shell's exit status when it may not execute a file (EACCES)
EXEC_DENIED == 126

Undefined == "<undefined>"
SupportedLanguages == {"python", "node", "c", "cpp", "java"}

(* --------------------------- request bodies ---------------------------- *)

Languages == SupportedLanguages \cup {Undefined, "", "ruby", "Python"}
\* a text field of the body: absent, or a string of some length
Text(lens) == {[defined |-> FALSE, length |-> 0]}
                 \cup {[defined |-> TRUE, length |-> n] : n \in lens}
Codes == Text({0, 1, CODE_LIMIT, CODE_LIMIT + 1})
Stdins == Text({0, 1})
Bodies == [language : Languages, code : Codes, stdin : Stdins]
EmptyBody == [language |-> Undefined, code |-> [defined |-> FALSE, length |-> 0],
              stdin |-> [defined |-> FALSE, length |-> 0]]
\* what the submitted program does when it is run: its exit code, or NoExit
ExitCodes == {0, 1, KILL_CODE}
Programs == ExitCodes \cup {NoExit}
\* how the command of a run can end: where the build's product may not be
\* executed, with a failed build (1) or with the refused exec; otherwise as
\* the submitted program does
Outcomes(refused) == IF refused THEN {1, EXEC_DENIED} ELSE Programs

\* JavaScript truthiness of a string, !s being its negation
Truthy(s) == s.defined /\ s.length > 0

(* --------------------------- output and text --------------------------- *)

\* What a process writes is a sequence of units: "A" is a block of BlockLen
\* ASCII bytes, "L" and "C" are the lead and the continuation byte of a
\* two-byte UTF-8 character.  A text is a sequence of characters: "A" (the
\* block, BlockLen characters), "U+00E9" and the replacement "U+FFFD".

\* the units a process may write after having written sent
NextUnits(sent) ==
  IF sent # <<>> /\ sent[Len(sent)] = "L" THEN {"C"} ELSE {"A", "L"}

\* Buffer.prototype.toString(): UTF-8 decoding of one buffer on its own; an
\* incomplete or stray byte becomes U+FFFD
RECURSIVE toString(_)
toString(d) ==
  IF d = <<>> THEN <<>>
  ELSE IF d[1] = "A" THEN <<"A">> \o toString(Tail(d))
  ELSE IF d[1] = "L" /\ Len(d) >= 2 /\ d[2] = "C"
    THEN <<"U+00E9">> \o toString(Tail(Tail(d)))
  ELSE <<"U+FFFD">> \o toString(Tail(d))

\* String.prototype.length of a text
RECURSIVE length(_)
length(t) ==
  IF t = <<>> THEN 0
  ELSE (IF t[1] = "A" THEN BlockLen ELSE 1) + length(Tail(t))

(* ------------------------------ dockerArgs ----------------------------- *)

Throw == <<"throw">>

RECURSIVE Join(_, _)
Join(parts, sep) ==
  IF parts = <<>> THEN ""
  ELSE IF Len(parts) = 1 THEN parts[1]
  ELSE parts[1] \o sep \o Join(Tail(parts), sep)

\* "--tmpfs", "/tmp:rw,nosuid,nodev,noexec,size=64m"
TmpfsOptions == <<"rw", "nosuid", "nodev", "noexec", "size=64m">>

common_NoNetworkFlag(dir) ==
  << "run", "--rm",
     "--cpus", LIMIT_CPUS,
     "--memory", LIMIT_MEMORY,
     "--pids-limit", "64",
     "--read-only",
     "--tmpfs", "/tmp:" \o Join(TmpfsOptions, ","),
     "--cap-drop", "ALL",
     "--security-opt", "no-new-privileges",
     "-v", dir \o ":/workspace:ro",
     "-w", "/workspace",
     "--user", "1000:1000" >>

common(dir) ==
  << "run", "--rm",
     "--network", "none",
     "--cpus", LIMIT_CPUS,
     "--memory", LIMIT_MEMORY,
     "--pids-limit", "64",
     "--read-only",
     "--tmpfs", "/tmp:" \o Join(TmpfsOptions, ","),
     "--cap-drop", "ALL",
     "--security-opt", "no-new-privileges",
     "-v", dir \o ":/workspace:ro",
     "-w", "/workspace",
     "--user", "1000:1000" >>

\* the steps of the shell command of a compiled language, joined by " && "
CommandSteps(language, fileBase) ==
  CASE language = "c" ->
         << "cp /workspace/" \o fileBase \o ".c /tmp",
            "gcc -O2 -pipe /tmp/" \o fileBase \o ".c -o /tmp/main",
            "/tmp/main" >>
    [] language = "cpp" ->
         << "cp /workspace/" \o fileBase \o ".cpp /tmp",
            "g++ -O2 -pipe /tmp/" \o fileBase \o ".cpp -o /tmp/main",
            "/tmp/main" >>
    [] language = "java" ->
         << "cp /workspace/Main.java /tmp",
            "javac -d /tmp /tmp/Main.java",
            "cd /tmp",
            "java Main" >>
    [] OTHER -> <<>>

dockerArgs(language, dir, fileBase) ==
  CASE language = "python" ->
         common(dir) \o <<"python:3.11-alpine", "python", fileBase \o ".py">>
    [] language = "node" ->
         common(dir) \o <<"node:20-alpine", "node", fileBase \o ".js">>
    [] language = "c" ->
         common(dir) \o <<"gcc:13", "/bin/sh", "-lc",
                          Join(CommandSteps(language, fileBase), " && ")>>
    [] language = "cpp" ->
         common(dir) \o <<"gcc:13", "/bin/sh", "-lc",
                          Join(CommandSteps(language, fileBase), " && ")>>
    [] language = "java" ->
         common(dir) \o <<"openjdk:21-jdk-slim", "/bin/sh", "-lc",
                          Join(CommandSteps(language, fileBase), " && ")>>
    [] OTHER -> Throw

\* the last step executes a file of /tmp, and /tmp is mounted noexec
ExecRefused(language, fileBase) ==
  LET steps == CommandSteps(language, fileBase) IN
    /\ steps # <<>>
    /\ steps[Len(steps)] = "/tmp/main"
    /\ \E i \in DOMAIN TmpfsOptions : TmpfsOptions[i] = "noexec"

(* ------------------------------ responses ------------------------------ *)

NoResponse == [status |-> 0]

json(data, status) == [status |-> status] @@ data

ErrorBody(message) == [error |-> message]

\* timedOut: exitCode === 137 && !stdout && !stderr
TimedOutFlag(exitCode, out, err) ==
  exitCode = KILL_CODE /\ out = <<>> /\ err = <<>>

ResultBody(exitCode, out, err) ==
  [exitCode |-> exitCode, stdout |-> out, stderr |-> err,
   timedOut |-> TimedOutFlag(exitCode, out, err)]

\* return json({exitCode, stdout, stderr, timedOut})
RunResponse_ErrorOnFailure(exitCode, out, err) ==
  IF exitCode = 0 THEN json(ResultBody(exitCode, out, err), 200)
  ELSE json(ErrorBody("runner error"), 500)

RunResponse(exitCode, out, err) == json(ResultBody(exitCode, out, err), 200)

\* resolve(code ?? 137)
CloseCode_NoDefault(code) == code

CloseCode(code) == IF code = NullCode THEN KILL_CODE ELSE code

(* ------------------------------ validation ----------------------------- *)

\* !language || ![...].includes(language)
LanguageRejected_OnlyMissing(language) == language \in {Undefined, ""}

LanguageRejected(language) ==
  language \in {Undefined, ""} \/ language \notin SupportedLanguages

\* !code || code.length > 300_000
CodeRejected_AtLimit(code) == ~Truthy(code) \/ code.length >= CODE_LIMIT

CodeRejected(code) == ~Truthy(code) \/ code.length > CODE_LIMIT

\* the switch that names the source file
FileNameOf_LowercaseJava(language) ==
  CASE language = "python" -> "main" \o ".py"
    [] language = "node" -> "main" \o ".js"
    [] language = "c" -> "main" \o ".c"
    [] language = "cpp" -> "main" \o ".cpp"
    [] language = "java" -> "main.java"
    [] OTHER -> ""

FileBaseOf(language) == IF language = "java" THEN "Main" ELSE "main"
FileNameOf(language) ==
  CASE language = "python" -> "main" \o ".py"
    [] language = "node" -> "main" \o ".js"
    [] language = "c" -> "main" \o ".c"
    [] language = "cpp" -> "main" \o ".cpp"
    [] language = "java" -> "Main.java"
    [] OTHER -> ""

(* --------------------------- response streams -------------------------- *)

\* A ReadableStream with its default controller: the stream's state, the
\* controller's close request and queue, the calls start() made on the
\* controller (with whether they returned), the times the stream closed.
NoStream == [state |-> "none", closeRequested |-> FALSE, queue |-> <<>>,
             calls |-> <<>>, closes |-> 0]
NewStream == [NoStream EXCEPT !.state = "readable"]

\* enqueue and close throw a TypeError unless this holds
CanCloseOrEnqueue(c) == ~c.closeRequested /\ c.state = "readable"

\* controller.enqueue(chunk)
enqueue(c, chunk) ==
  IF CanCloseOrEnqueue(c)
    THEN [c EXCEPT !.queue = Append(@, chunk),
                   !.calls = Append(@, [op |-> "enqueue", chunk |-> chunk, ok |-> TRUE])]
    ELSE [c EXCEPT !.calls = Append(@, [op |-> "enqueue", chunk |-> chunk, ok |-> FALSE])]

\* controller.close(): the stream closes once its queue is empty
close(c) ==
  IF CanCloseOrEnqueue(c)
    THEN [c EXCEPT !.closeRequested = TRUE,
                   !.state = IF c.queue = <<>> THEN "closed" ELSE @,
                   !.closes = IF c.queue = <<>> THEN @ + 1 ELSE @,
                   !.calls = Append(@, [op |-> "close", chunk |-> "", ok |-> TRUE])]
    ELSE [c EXCEPT !.calls = Append(@, [op |-> "close", chunk |-> "", ok |-> FALSE])]

\* a read of the body's reader takes the head of the queue; the stream
\* closes when a requested close finds the queue drained
read(c) ==
  LET rest == Tail(c.queue) IN
    [c EXCEPT !.queue = rest,
              !.state = IF c.closeRequested /\ rest = <<>> THEN "closed" ELSE @,
              !.closes = IF c.closeRequested /\ rest = <<>> THEN @ + 1 ELSE @]

\* the consumer cancels the body: the queue is dropped, the stream closed
cancel(c) == [c EXCEPT !.queue = <<>>, !.state = "closed", !.closes = @ + 1]

(* -------------------------------- state -------------------------------- *)

VARIABLES
  jsonOk,      \* the request's body parses as JSON
  body,        \* the parsed request body {language, code, stdin}
  pc,          \* where the handler is suspended
  resp,        \* the Response the handler returned, NoResponse before
  fault,       \* an exception escaped every handler (unhandled 'error' event)
  ws,          \* the workspace directory: "none", "exists", "removed"
  rm,          \* the fs.rm call: "idle", "pending", "done", "failed"
  created,     \* number of workspaces mkdtemp created
  dir, filename, fileBase,
  written,     \* name of the file written into the workspace, "" if none
  args,        \* the argument vector given to spawn
  proc,        \* the spawned docker client: "none", "running", "exited",
               \* "killed", "failed"
  launched,    \* number of processes started
  prog,        \* what the submitted program does
  container,   \* the container of the run: "none", "running", "exited"
  stdinWrites, stdinEnds,  \* calls of proc.stdin.write and proc.stdin.end
  stdinLog,                \* those calls in the order they were made
  nOut, nErr,          \* units the process has written on each stream
  sentOut, sentErr,    \* everything the process has written on each stream
  pipeOut, pipeErr,    \* bytes in the pipes, not yet seen by the listeners
  stdout, stderr,      \* the accumulators of the handler
  timer,       \* killer: "unset", "armed", "fired", "cleared"
  elapsed,     \* milliseconds since setTimeout
  firedAt,     \* value of elapsed when the timer callback ran
  killSignal,  \* signal proc.kill delivered, "" if none
  errorPending, \* an 'error' event of the child is queued for the next tick
  \* several requests in flight at once (ConcSpec)
  reqs,        \* per request: the locals of its POST invocation
  tmpDirs,     \* the directories that exist under os.tmpdir()
  \* the chat proxy (ChatSpec)
  chatPc,      \* where the proxy's POST and the stream's start() stand
  chatResp,    \* status of the Response the proxy returned, 0 before
  controller,  \* the ReadableStream behind the response and the calls made on it
  pulled,      \* chunks start() has taken from the completion stream
  threw,       \* iterating the completion stream threw
  received,    \* what the client has read from the response body
  cancelled,   \* the client has cancelled the response body
  \* the chat page (PageSpec)
  input,       \* the text of the input box
  loading,     \* the loading flag
  abortRef,    \* abortRef.current: the send() whose controller it holds, 0 for null
  messages,    \* the messages shown
  sends,       \* per call of send(): where it is suspended and its locals
  started      \* calls of send() that got past the guard

wsVars == <<ws, rm, created, dir, filename, fileBase, written>>
procVars == <<args, proc, launched, prog, container, stdinWrites, stdinEnds, stdinLog,
              killSignal, errorPending>>
ioVars == <<nOut, nErr, sentOut, sentErr, pipeOut, pipeErr, stdout, stderr>>
timerVars == <<timer, elapsed, firedAt>>
concVars == <<reqs, tmpDirs>>
chatVars == <<chatPc, chatResp, controller, pulled, threw, received, cancelled>>
pageVars == <<input, loading, abortRef, messages, sends, started>>
uiVars == <<chatVars, pageVars>>
vars == <<concVars, uiVars, jsonOk, body, pc, resp, fault, wsVars, procVars, ioVars, timerVars>>

\* the calls of send() and the locals of one of them: nextHistory, the
\* abort signal of its controller, the chunks it has read
SendIds == 1..MaxSends
IdleSend == [pc |-> "idle", nextHistory |-> <<>>, aborted |-> FALSE, nRead |-> 0]

\* setTimeout(..., LIMIT_SECONDS * 1000)
TimerDelay == LIMIT_SECONDS * 1000

\* the requests of the concurrent model, and the names mkdtemp can draw
Reqs == 1..NumReqs
Suffixes == <<"a1B2c3", "d4E5f6", "g7H8i9", "j0K1l2">>
DirNames == {"/tmp/run-" \o Suffixes[i] : i \in 1..NumReqs}
\* the locals of an invocation of POST that has not started
IdleReq ==
  [pc |-> "req_json", dir |-> "", ws |-> "none", rm |-> "idle",
   child |-> 0, proc |-> "none", prog |-> NoExit, wrote |-> FALSE,
   pipeOut |-> <<>>, stdout |-> <<>>, stderr |-> <<>>,
   timer |-> "unset", resp |-> NoResponse]

Init ==
  /\ \/ jsonOk = TRUE /\ body \in Bodies
     \/ jsonOk = FALSE /\ body = EmptyBody
  /\ pc = "req_json"
  /\ resp = NoResponse
  /\ fault = FALSE
  /\ ws = "none" /\ rm = "idle" /\ created = 0
  /\ dir = "" /\ filename = "" /\ fileBase = "" /\ written = ""
  /\ args = <<>>
  /\ proc = "none" /\ launched = 0 /\ prog = NoExit /\ container = "none"
  /\ stdinWrites = 0 /\ stdinEnds = 0 /\ stdinLog = <<>>
  /\ killSignal = "" /\ errorPending = FALSE
  /\ nOut = 0 /\ nErr = 0
  /\ sentOut = <<>> /\ sentErr = <<>>
  /\ pipeOut = <<>> /\ pipeErr = <<>>
  /\ stdout = <<>> /\ stderr = <<>>
  /\ timer = "unset" /\ elapsed = 0 /\ firedAt = 0
  /\ reqs = [r \in Reqs |-> IdleReq]
  /\ tmpDirs = {}
  /\ chatPc = "req_json" /\ chatResp = 0
  /\ controller = NoStream
  /\ pulled = 0 /\ threw = FALSE
  /\ received = <<>> /\ cancelled = FALSE
  /\ input = "" /\ loading = FALSE /\ abortRef = 0
  /\ messages = <<>>
  /\ sends = [i \in SendIds |-> IdleSend]
  /\ started = 0

(* ------------------------------ the handler ---------------------------- *)

\* catch (e) { return json({ error: e?.message || "runner error" }, 500) }
Catch(message) ==
  /\ resp' = json(ErrorBody(message), 500)
  /\ pc' = "done"

\* await req.json() rejects: the body is not JSON
ReqJsonThrows ==
  /\ pc = "req_json"
  /\ ~jsonOk
  /\ Catch("runner error")
  /\ UNCHANGED <<concVars, uiVars, jsonOk, body, fault, wsVars, procVars, ioVars, timerVars>>

\* the body is parsed; the two checks; then mkdtemp is called
Validate_CodeFirst ==
  /\ pc = "req_json"
  /\ jsonOk
  /\ IF CodeRejected(body.code)
       THEN /\ resp' = json(ErrorBody("Missing code or too large"), 413)
            /\ pc' = "done"
       ELSE IF LanguageRejected(body.language)
         THEN /\ resp' = json(ErrorBody("Unsupported or missing language"), 400)
              /\ pc' = "done"
         ELSE /\ resp' = resp
              /\ pc' = "mkdtemp"
  /\ UNCHANGED <<concVars, uiVars, jsonOk, body, fault, wsVars, procVars, ioVars, timerVars>>

Validate ==
  /\ pc = "req_json"
  /\ jsonOk
  /\ IF LanguageRejected(body.language)
       THEN /\ resp' = json(ErrorBody("Unsupported or missing language"), 400)
            /\ pc' = "done"
       ELSE IF CodeRejected(body.code)
         THEN /\ resp' = json(ErrorBody("Missing code or too large"), 413)
              /\ pc' = "done"
         ELSE /\ resp' = resp
              /\ pc' = "mkdtemp"
  /\ UNCHANGED <<concVars, uiVars, jsonOk, body, fault, wsVars, procVars, ioVars, timerVars>>

\* mkdtemp resolves: the directory exists; the switch names the file; then
\* writeFile is called
MkdtempOk ==
  /\ pc = "mkdtemp"
  /\ ws' = "exists"
  /\ created' = created + 1
  /\ dir' = "/tmp/run-" \o "a1B2c3"
  /\ fileBase' = FileBaseOf(body.language)
  /\ filename' = FileNameOf(body.language)
  /\ pc' = "writeFile"
  /\ UNCHANGED <<concVars, uiVars, jsonOk, body, resp, fault, rm, written, procVars, ioVars, timerVars>>

\* mkdtemp rejects: no directory was created
MkdtempThrows ==
  /\ pc = "mkdtemp"
  /\ Catch("mkdtemp failed")
  /\ UNCHANGED <<concVars, uiVars, jsonOk, body, fault, wsVars, procVars, ioVars, timerVars>>

\* writeFile rejects
WriteFileThrows ==
  /\ pc = "writeFile"
  /\ Catch("write failed")
  /\ UNCHANGED <<concVars, uiVars, jsonOk, body, fault, wsVars, procVars, ioVars, timerVars>>

\* if (stdin) proc.stdin.write(stdin); proc.stdin.end()
FeedStdin_EndInsideIf ==
  /\ stdinWrites' = IF Truthy(body.stdin) THEN stdinWrites + 1 ELSE stdinWrites
  /\ stdinEnds' = IF Truthy(body.stdin) THEN stdinEnds + 1 ELSE stdinEnds
  /\ stdinLog' = stdinLog \o (IF Truthy(body.stdin) THEN <<"write", "end">>
                                                    ELSE <<>>)

FeedStdin ==
  /\ stdinWrites' = IF Truthy(body.stdin) THEN stdinWrites + 1 ELSE stdinWrites
  /\ stdinEnds' = stdinEnds + 1
  /\ stdinLog' = stdinLog \o (IF Truthy(body.stdin) THEN <<"write">> ELSE <<>>)
                          \o <<"end">>

\* const killer = setTimeout(...)
ArmTimer ==
  /\ timer' = "armed"
  /\ elapsed' = 0
  /\ firedAt' = firedAt

\* writeFile resolves, dockerArgs, spawn succeeds, stdin is fed, the
\* listeners and the timer are set, the handler awaits the close event
Launch ==
  /\ pc = "writeFile"
  /\ filename # ""
  /\ dockerArgs(body.language, dir, fileBase) # Throw
  /\ written' = filename
  /\ args' = dockerArgs(body.language, dir, fileBase)
  /\ proc' = "running"
  /\ container' = "running"
  /\ launched' = launched + 1
  /\ prog' \in Outcomes(ExecRefused(body.language, fileBase))
  /\ FeedStdin
  /\ ArmTimer
  /\ pc' = "await_close"
  /\ UNCHANGED <<concVars, uiVars, jsonOk, body, resp, fault, ws, rm, created, dir, filename, fileBase,
                 killSignal, errorPending, ioVars>>

\* writeFile resolves, then dockerArgs or spawn throws synchronously
LaunchThrows ==
  /\ pc = "writeFile"
  /\ filename # ""
  /\ written' = filename
  /\ args' = dockerArgs(body.language, dir, fileBase)
  /\ proc' = "failed"
  /\ Catch("spawn failed")
  /\ UNCHANGED <<concVars, uiVars, jsonOk, body, fault, ws, rm, created, dir, filename, fileBase,
                 launched, prog, container, stdinWrites, stdinEnds, stdinLog,
                 killSignal, errorPending, ioVars, timerVars>>

\* writeFile resolves, spawn returns a child that could not be started
\* (docker missing): its 'error' event is queued, the handler goes on
LaunchErrorEvent ==
  /\ pc = "writeFile"
  /\ filename # ""
  /\ dockerArgs(body.language, dir, fileBase) # Throw
  /\ written' = filename
  /\ args' = dockerArgs(body.language, dir, fileBase)
  /\ proc' = "failed"
  /\ errorPending' = TRUE
  /\ FeedStdin
  /\ ArmTimer
  /\ pc' = "await_close"
  /\ UNCHANGED <<concVars, uiVars, jsonOk, body, resp, fault, ws, rm, created, dir, filename, fileBase,
                 launched, prog, container, killSignal, ioVars>>

\* the child emits 'error'; no listener is registered for it
UnhandledError ==
  /\ errorPending
  /\ errorPending' = FALSE
  /\ fault' = TRUE
  /\ UNCHANGED <<concVars, uiVars, jsonOk, body, pc, resp, wsVars, args, proc, launched, prog, container,
                 stdinWrites, stdinEnds, stdinLog, killSignal, ioVars, timerVars>>

(* --------------------- the process, pipes and timer -------------------- *)

\* the program writes to its stdout; the bytes reach the pipe of the child
ProcStdout ==
  /\ proc = "running"
  /\ nOut < MaxChunks
  /\ \E u \in NextUnits(sentOut) :
       /\ sentOut' = Append(sentOut, u)
       /\ pipeOut' = Append(pipeOut, u)
  /\ nOut' = nOut + 1
  /\ UNCHANGED <<concVars, uiVars, jsonOk, body, pc, resp, fault, wsVars, procVars, nErr,
                 sentErr, pipeErr, stdout, stderr, timerVars>>

\* the program writes to its stderr
ProcStderr ==
  /\ proc = "running"
  /\ nErr < MaxChunks
  /\ \E u \in NextUnits(sentErr) :
       /\ sentErr' = Append(sentErr, u)
       /\ pipeErr' = Append(pipeErr, u)
  /\ nErr' = nErr + 1
  /\ UNCHANGED <<concVars, uiVars, jsonOk, body, pc, resp, fault, wsVars, procVars, nOut,
                 sentOut, pipeOut, stdout, stderr, timerVars>>

\* proc.stdout.on("data", d => (stdout += d.toString())): a data event
\* carries the bytes read from the pipe, wherever the read happens to end
OnStdoutData ==
  /\ pc = "await_close"
  /\ pipeOut # <<>>
  /\ \E n \in 1..Len(pipeOut) :
       /\ stdout' = stdout \o toString(SubSeq(pipeOut, 1, n))
       /\ pipeOut' = SubSeq(pipeOut, n + 1, Len(pipeOut))
  /\ UNCHANGED <<concVars, uiVars, jsonOk, body, pc, resp, fault, wsVars, procVars, nOut, nErr,
                 sentOut, sentErr, pipeErr, stderr, timerVars>>

\* proc.stderr.on("data", d => (stderr += d.toString()))
OnStderrData ==
  /\ pc = "await_close"
  /\ pipeErr # <<>>
  /\ \E n \in 1..Len(pipeErr) :
       /\ stderr' = stderr \o toString(SubSeq(pipeErr, 1, n))
       /\ pipeErr' = SubSeq(pipeErr, n + 1, Len(pipeErr))
  /\ UNCHANGED <<concVars, uiVars, jsonOk, body, pc, resp, fault, wsVars, procVars, nOut, nErr,
                 sentOut, sentErr, pipeOut, stdout, timerVars>>

\* the program ends on its own: the container exits and docker run exits
\* with the program's exit code
ProcExit ==
  /\ proc = "running"
  /\ prog # NoExit
  /\ proc' = "exited"
  /\ container' = "exited"
  /\ UNCHANGED <<concVars, uiVars, jsonOk, body, pc, resp, fault, wsVars, args, launched, prog,
                 stdinWrites, stdinEnds, stdinLog, killSignal, errorPending, ioVars,
                 timerVars>>

\* a container whose client was killed goes on running its program, and
\* ends only when the program does
ContainerExit ==
  /\ proc = "killed"
  /\ container = "running"
  /\ prog # NoExit
  /\ container' = "exited"
  /\ UNCHANGED <<concVars, uiVars, jsonOk, body, pc, resp, fault, wsVars, args, proc, launched, prog,
                 stdinWrites, stdinEnds, stdinLog, killSignal, errorPending, ioVars,
                 timerVars>>

\* time passes while the timer is armed
Tick ==
  /\ timer = "armed"
  /\ elapsed < MaxTime
  /\ elapsed' = elapsed + TickMs
  /\ UNCHANGED <<concVars, uiVars, jsonOk, body, pc, resp, fault, wsVars, procVars, ioVars, timer,
                 firedAt>>

\* () => { try { proc.kill("SIGKILL"); } catch {} }
\* SIGKILL ends the docker client; kill on a child that is gone does nothing
TimerFire ==
  /\ timer = "armed"
  /\ elapsed >= TimerDelay
  /\ timer' = "fired"
  /\ firedAt' = elapsed
  /\ IF proc = "running"
       THEN proc' = "killed" /\ killSignal' = "SIGKILL"
       ELSE proc' = proc /\ killSignal' = killSignal
  /\ UNCHANGED <<concVars, uiVars, jsonOk, body, pc, resp, fault, wsVars, args, launched, prog,
                 container, stdinWrites, stdinEnds, stdinLog, errorPending, ioVars,
                 elapsed>>

\* the code the close event carries: null when a signal ended the child
ExitStatus == IF proc = "killed" THEN NullCode ELSE prog

Close_NoClearTimeout ==
  /\ pc = "await_close"
  /\ proc \in {"exited", "killed"}
  /\ pipeOut = <<>> /\ pipeErr = <<>>
  /\ rm' = "pending"
  /\ resp' = RunResponse(CloseCode(ExitStatus), stdout, stderr)
  /\ pc' = "done"
  /\ UNCHANGED <<concVars, uiVars, jsonOk, body, fault, ws, created, dir, filename, fileBase, written,
                 procVars, ioVars, timerVars>>

\* proc.on("close", code => resolve(code ?? 137)), emitted once the child
\* has ended and its streams are drained; then clearTimeout, fs.rm (not
\* awaited) and the result
Close ==
  /\ pc = "await_close"
  /\ proc \in {"exited", "killed"}
  /\ pipeOut = <<>> /\ pipeErr = <<>>
  /\ timer' = IF timer = "armed" THEN "cleared" ELSE timer
  /\ rm' = "pending"
  /\ resp' = RunResponse(CloseCode(ExitStatus), stdout, stderr)
  /\ pc' = "done"
  /\ UNCHANGED <<concVars, uiVars, jsonOk, body, fault, ws, created, dir, filename, fileBase, written,
                 procVars, ioVars, elapsed, firedAt>>

\* fs.rm(dir, { recursive: true, force: true }) completes
RmDone ==
  /\ rm = "pending"
  /\ rm' = "done"
  /\ ws' = "removed"
  /\ UNCHANGED <<concVars, uiVars, jsonOk, body, pc, resp, fault, created, dir, filename, fileBase,
                 written, procVars, ioVars, timerVars>>

\* fs.rm rejects; .catch(() => {}) drops the error
RmFails ==
  /\ rm = "pending"
  /\ rm' = "failed"
  /\ UNCHANGED <<concVars, uiVars, jsonOk, body, pc, resp, fault, ws, created, dir, filename, fileBase,
                 written, procVars, ioVars, timerVars>>

Next ==
  \/ ReqJsonThrows
  \/ Validate
  \/ MkdtempOk
  \/ MkdtempThrows
  \/ WriteFileThrows
  \/ Launch
  \/ LaunchThrows
  \/ LaunchErrorEvent
  \/ UnhandledError
  \/ ProcStdout
  \/ ProcStderr
  \/ OnStdoutData
  \/ OnStderrData
  \/ ProcExit
  \/ ContainerExit
  \/ Tick
  \/ TimerFire
  \/ Close
  \/ RmDone
  \/ RmFails

Spec == Init /\ [][Next]_vars

\* The requests followed under fairness: a few bodies of each kind.
LiveBodies ==
  {b \in Bodies : /\ b.language \in {"python", "c", Undefined}
                  /\ b.code.defined /\ b.code.length \in {1, CODE_LIMIT + 1}
                  /\ b.stdin.length = (IF b.stdin.defined THEN 1 ELSE 0)}

InitLive == Init /\ (jsonOk => body \in LiveBodies)

\* What the event loop guarantees: a settled promise resumes the handler, a
\* queued event or readable data is delivered, time passes and an expired
\* timer runs its callback.  Nothing obliges the program to write or to end.
Fairness ==
  /\ WF_vars(ReqJsonThrows \/ Validate)
  /\ WF_vars(MkdtempOk \/ MkdtempThrows)
  /\ WF_vars(WriteFileThrows \/ Launch \/ LaunchThrows \/ LaunchErrorEvent)
  /\ WF_vars(UnhandledError)
  /\ WF_vars(OnStdoutData)
  /\ WF_vars(OnStderrData)
  /\ WF_vars(Tick)
  /\ WF_vars(TimerFire)
  /\ WF_vars(Close)
  /\ WF_vars(RmDone \/ RmFails)

FairSpec == InitLive /\ [][Next]_vars /\ Fairness

TypeOK ==
  /\ jsonOk \in BOOLEAN
  /\ body \in Bodies
  /\ pc \in {"req_json", "mkdtemp", "writeFile", "await_close", "done"}
  /\ resp.status \in {0, 200, 400, 413, 500}
  /\ fault \in BOOLEAN
  /\ ws \in {"none", "exists", "removed"}
  /\ rm \in {"idle", "pending", "done", "failed"}
  /\ proc \in {"none", "running", "exited", "killed", "failed"}
  /\ container \in {"none", "running", "exited"}
  /\ prog \in Programs \cup {EXEC_DENIED}
  /\ timer \in {"unset", "armed", "fired", "cleared"}
  /\ nOut \in 0..MaxChunks /\ nErr \in 0..MaxChunks

(* ---------------------- several requests at once ----------------------- *)

\* Each request runs the handler above with its own locals (reqs[r]); what
\* the invocations share is the temporary directory and the event loop.
\* Followed here for submissions that pass validation, with one write of
\* each process on its stdout (stderr is handled alike); the passing of a
\* deadline is left to the environment.

runVars == <<jsonOk, body, pc, resp, fault, wsVars, procVars, ioVars, timerVars>>

\* mkdtemp returns a name that does not exist yet
FreshDirs_FixedName(existing) == {"/tmp/run-" \o "a1B2c3"}

FreshDirs(existing) == DirNames \ existing

\* const { language, code, stdin } = await req.json(), the checks pass
ArriveC(r) ==
  /\ reqs[r].pc = "req_json"
  /\ reqs' = [reqs EXCEPT ![r].pc = "mkdtemp"]
  /\ UNCHANGED <<tmpDirs, runVars, uiVars>>

\* const dir = await fs.mkdtemp(...)
MkdtempC(r) ==
  /\ reqs[r].pc = "mkdtemp"
  /\ \E d \in FreshDirs(tmpDirs) :
       /\ reqs' = [reqs EXCEPT ![r].pc = "writeFile", ![r].dir = d,
                               ![r].ws = "exists"]
       /\ tmpDirs' = tmpDirs \cup {d}
  /\ UNCHANGED <<runVars, uiVars>>

\* mkdtemp or writeFile rejects, or spawn throws: the catch block
ThrowC(r) ==
  /\ reqs[r].pc \in {"mkdtemp", "writeFile"}
  /\ reqs' = [reqs EXCEPT ![r].pc = "done",
                          ![r].resp = json(ErrorBody("runner error"), 500)]
  /\ UNCHANGED <<tmpDirs, runVars, uiVars>>

\* writeFile resolves; const proc = spawn(...): a child of this invocation,
\* named here after it; the listeners, setTimeout, await
LaunchC(r) ==
  /\ reqs[r].pc = "writeFile"
  /\ \E g \in {0, NoExit} :
       reqs' = [reqs EXCEPT ![r].pc = "await_close", ![r].child = r,
                            ![r].proc = "running", ![r].prog = g,
                            ![r].timer = "armed"]
  /\ UNCHANGED <<tmpDirs, runVars, uiVars>>

\* the child of r writes to its stdout
WriteC(r) ==
  /\ reqs[r].proc = "running"
  /\ ~reqs[r].wrote
  /\ reqs' = [reqs EXCEPT ![r].wrote = TRUE,
                          ![r].pipeOut = Append(@, [by |-> reqs[r].child,
                                                    bytes |-> <<"A">>])]
  /\ UNCHANGED <<tmpDirs, runVars, uiVars>>

\* the listener of r: stdout += d.toString()
DataC(r) ==
  /\ reqs[r].pc = "await_close"
  /\ reqs[r].pipeOut # <<>>
  /\ LET d == Head(reqs[r].pipeOut) IN
       reqs' = [reqs EXCEPT
                  ![r].stdout = Append(@, [by |-> d.by, text |-> toString(d.bytes)]),
                  ![r].pipeOut = Tail(@)]
  /\ UNCHANGED <<tmpDirs, runVars, uiVars>>

\* the program of r ends on its own
ExitC(r) ==
  /\ reqs[r].proc = "running"
  /\ reqs[r].prog # NoExit
  /\ reqs' = [reqs EXCEPT ![r].proc = "exited"]
  /\ UNCHANGED <<tmpDirs, runVars, uiVars>>

\* the deadline of r has passed and its killer runs: proc.kill("SIGKILL")
\* on the child of r
TimerFireC(r) ==
  /\ reqs[r].timer = "armed"
  /\ reqs' = [reqs EXCEPT ![r].timer = "fired",
                          ![r].proc = IF @ = "running" THEN "killed" ELSE @]
  /\ UNCHANGED <<tmpDirs, runVars, uiVars>>

\* the close event of the child of r can be delivered
CanClose(r) ==
  /\ reqs[r].pc = "await_close"
  /\ reqs[r].proc \in {"exited", "killed"}
  /\ reqs[r].pipeOut = <<>>

\* close of the child of r: clearTimeout, fs.rm (not awaited), the result
CloseC(r) ==
  /\ CanClose(r)
  /\ reqs' = [reqs EXCEPT
       ![r].pc = "done",
       ![r].timer = IF @ = "armed" THEN "cleared" ELSE @,
       ![r].rm = "pending",
       ![r].resp = RunResponse(
                     CloseCode(IF reqs[r].proc = "killed" THEN NullCode
                                                         ELSE reqs[r].prog),
                     reqs[r].stdout, reqs[r].stderr)]
  /\ UNCHANGED <<tmpDirs, runVars, uiVars>>

\* the fs.rm of r completes: the directory named dir is gone, whoever uses it
RmC(r) ==
  /\ reqs[r].rm = "pending"
  /\ reqs' = [q \in Reqs |->
                IF q = r THEN [reqs[q] EXCEPT !.ws = "removed", !.rm = "done"]
                ELSE IF reqs[q].dir = reqs[r].dir /\ reqs[q].ws = "exists"
                  THEN [reqs[q] EXCEPT !.ws = "removed"]
                  ELSE reqs[q]]
  /\ tmpDirs' = tmpDirs \ {reqs[r].dir}
  /\ UNCHANGED <<runVars, uiVars>>

NextConc ==
  \/ \E r \in Reqs : ArriveC(r)
  \/ \E r \in Reqs : MkdtempC(r)
  \/ \E r \in Reqs : ThrowC(r)
  \/ \E r \in Reqs : LaunchC(r)
  \/ \E r \in Reqs : WriteC(r)
  \/ \E r \in Reqs : DataC(r)
  \/ \E r \in Reqs : ExitC(r)
  \/ \E r \in Reqs : TimerFireC(r)
  \/ \E r \in Reqs : CloseC(r)
  \/ \E r \in Reqs : RmC(r)

InitConc == Init /\ ~jsonOk

ConcSpec == InitConc /\ [][NextConc]_vars

(* ----------------------------- the chat proxy -------------------------- *)

\* The chat route: POST parses the body, asks for a streamed completion and
\* answers with a ReadableStream whose start() copies the completion's
\* deltas into it.  The client reads the body or cancels it.

\* chunk.choices?.[0]?.delta?.content ?? "" of a chunk of the completion
Deltas == {"", "tok"}
\* `\n\n[error] ${err.message}`
ErrorChunk == "[error]"

\* how start() leaves its try statement: the catch block when the body
\* threw, then the finally block
Settle_CloseInTry(c, failed) ==
  IF failed THEN enqueue(c, ErrorChunk) ELSE close(c)

Settle(c, failed) == close(IF failed THEN enqueue(c, ErrorChunk) ELSE c)

\* await req.json() rejects: the outer catch answers 400
ChatReqJsonThrows ==
  /\ chatPc = "req_json"
  /\ chatResp' = 400
  /\ chatPc' = "done"
  /\ UNCHANGED <<concVars, runVars, pageVars, controller, pulled, threw, received, cancelled>>

\* const { messages } = await req.json()
ChatReqJson ==
  /\ chatPc = "req_json"
  /\ chatPc' = "create"
  /\ UNCHANGED <<concVars, runVars, pageVars, chatResp, controller, pulled, threw, received, cancelled>>

\* await openai.chat.completions.create(...) rejects: the outer catch
ChatCreateThrows ==
  /\ chatPc = "create"
  /\ chatResp' = 400
  /\ chatPc' = "done"
  /\ UNCHANGED <<concVars, runVars, pageVars, controller, pulled, threw, received, cancelled>>

\* create resolves; new ReadableStream({start}) runs start() up to its first
\* await; return new Response(readable, ...)
ChatCreate ==
  /\ chatPc = "create"
  /\ controller' = NewStream
  /\ chatResp' = 200
  /\ chatPc' = "loop"
  /\ UNCHANGED <<concVars, runVars, pageVars, pulled, threw, received, cancelled>>

\* one turn of the for await: if (delta) controller.enqueue(...); an
\* enqueue that throws is caught by the same catch
ChatChunk ==
  /\ chatPc = "loop"
  /\ pulled < MaxDeltas
  /\ pulled' = pulled + 1
  /\ \E delta \in Deltas :
       IF delta = ""
         THEN /\ controller' = controller
              /\ chatPc' = "loop"
         ELSE IF CanCloseOrEnqueue(controller)
           THEN /\ controller' = enqueue(controller, delta)
                /\ chatPc' = "loop"
           ELSE /\ controller' = Settle(enqueue(controller, delta), TRUE)
                /\ chatPc' = "ended"
  /\ UNCHANGED <<concVars, runVars, pageVars, chatResp, threw, received, cancelled>>

\* the completion stream is done: the loop ends, finally
ChatUpstreamEnd ==
  /\ chatPc = "loop"
  /\ controller' = Settle(controller, FALSE)
  /\ chatPc' = "ended"
  /\ UNCHANGED <<concVars, runVars, pageVars, chatResp, pulled, threw, received, cancelled>>

\* iterating the completion stream throws: catch, finally
ChatUpstreamThrows ==
  /\ chatPc = "loop"
  /\ threw' = TRUE
  /\ controller' = Settle(controller, TRUE)
  /\ chatPc' = "ended"
  /\ UNCHANGED <<concVars, runVars, pageVars, chatResp, pulled, received, cancelled>>

\* the client reads a chunk of the response body
ClientRead ==
  /\ chatResp = 200
  /\ controller.state = "readable"
  /\ controller.queue # <<>>
  /\ received' = Append(received, Head(controller.queue))
  /\ controller' = read(controller)
  /\ UNCHANGED <<concVars, runVars, pageVars, chatPc, chatResp, pulled, threw, cancelled>>

\* the client goes away or aborts its fetch: the body is cancelled
ClientCancel ==
  /\ chatResp = 200
  /\ controller.state = "readable"
  /\ controller' = cancel(controller)
  /\ cancelled' = TRUE
  /\ UNCHANGED <<concVars, runVars, pageVars, chatPc, chatResp, pulled, threw, received>>

NextChat ==
  \/ ChatReqJsonThrows
  \/ ChatReqJson
  \/ ChatCreateThrows
  \/ ChatCreate
  \/ ChatChunk
  \/ ChatUpstreamEnd
  \/ ChatUpstreamThrows
  \/ ClientRead
  \/ ClientCancel

InitChat == Init /\ ~jsonOk

ChatSpec == InitChat /\ [][NextChat]_vars

(* ------------------------------ the chat page -------------------------- *)

\* The streaming chat page: send() posts the history to /api/chat and reads
\* the reply as it streams; stop() aborts the request.  The user types,
\* presses Enter (which calls send() whatever the Send button's state) and
\* presses Stop (enabled while loading).

Inputs == {"", " ", "hi", " hi "}

RECURSIVE trimStart(_)
trimStart(t) ==
  IF Len(t) > 0 /\ SubSeq(t, 1, 1) = " " THEN trimStart(SubSeq(t, 2, Len(t))) ELSE t
RECURSIVE trimEnd(_)
trimEnd(t) ==
  IF Len(t) > 0 /\ SubSeq(t, Len(t), Len(t)) = " "
    THEN trimEnd(SubSeq(t, 1, Len(t) - 1)) ELSE t
\* input.trim()
trim(t) == trimEnd(trimStart(t))

Msg(role, content) == [role |-> role, content |-> content]

\* what fetch can resolve with: the streamed reply, an HTML page, a 429, a
\* 400 with a text body
Replies == {[status |-> 200, html |-> FALSE], [status |-> 200, html |-> TRUE],
            [status |-> 429, html |-> FALSE], [status |-> 400, html |-> FALSE]}
\* !res.ok || ct.includes("text/html")
IsFailure(res) == res.status \notin 200..299 \/ res.html

\* onChange: setInput(e.target.value)
Type ==
  /\ \E t \in Inputs : t # input /\ input' = t
  /\ UNCHANGED <<concVars, runVars, chatVars, loading, abortRef, messages, sends, started>>

\* if (!text || loading) return
SendGuard == trim(input) # "" /\ ~loading

\* send() up to its first await: the guard, the history, the flag, fetch
Send ==
  /\ started < MaxSends
  /\ IF SendGuard
       THEN LET i == started + 1
                nextHistory == Append(messages, Msg("user", trim(input)))
            IN /\ messages' = nextHistory
               /\ input' = ""
               /\ loading' = TRUE
               /\ abortRef' = i
               /\ sends' = [sends EXCEPT ![i] = [pc |-> "fetch",
                                                 nextHistory |-> nextHistory,
                                                 aborted |-> FALSE, nRead |-> 0]]
               /\ started' = i
       ELSE UNCHANGED pageVars
  /\ UNCHANGED <<concVars, runVars, chatVars>>

\* fetch resolves: the failure branch awaits res.text(), otherwise
\* res.body.getReader() and the first reader.read()
FetchResolves(i) ==
  /\ sends[i].pc = "fetch"
  /\ ~sends[i].aborted
  /\ \E res \in Replies :
       sends' = [sends EXCEPT ![i].pc = IF IsFailure(res)
                                          THEN IF res.status = 429 THEN "text429"
                                                                   ELSE "text"
                                          ELSE "read"]
  /\ UNCHANGED <<concVars, runVars, chatVars, input, loading, abortRef, messages, started>>

\* fetch rejects (network failure, or the abort): the catch block
FetchRejects(i) ==
  /\ sends[i].pc = "fetch"
  /\ messages' = Append(sends[i].nextHistory, Msg("system", "Network error"))
  /\ loading' = FALSE
  /\ abortRef' = 0
  /\ sends' = [sends EXCEPT ![i].pc = "returned"]
  /\ UNCHANGED <<concVars, runVars, chatVars, input, started>>

\* res.text() resolves: the message, setLoading(false), return
TextResolves(i) ==
  /\ sends[i].pc \in {"text", "text429"}
  /\ ~sends[i].aborted
  /\ messages' = Append(sends[i].nextHistory,
                        Msg("system", IF sends[i].pc = "text429" THEN "Rate limit"
                                                                 ELSE "HTTP error"))
  /\ loading' = FALSE
  /\ abortRef' = 0
  /\ sends' = [sends EXCEPT ![i].pc = "returned"]
  /\ UNCHANGED <<concVars, runVars, chatVars, input, started>>

\* res.text() rejects (the connection drops, or the abort): nothing catches it
TextRejects(i) ==
  /\ sends[i].pc \in {"text", "text429"}
  /\ sends' = [sends EXCEPT ![i].pc = "thrown"]
  /\ UNCHANGED <<concVars, runVars, chatVars, input, loading, abortRef, messages, started>>

\* reader.read() gives a chunk: acc += ..., setMessages
ReadChunk(i) ==
  /\ sends[i].pc = "read"
  /\ ~sends[i].aborted
  /\ sends[i].nRead < MaxReads
  /\ messages' = Append(sends[i].nextHistory, Msg("assistant", "acc"))
  /\ sends' = [sends EXCEPT ![i].nRead = @ + 1]
  /\ UNCHANGED <<concVars, runVars, chatVars, input, loading, abortRef, started>>

\* reader.read() gives done: break, setLoading(false)
ReadDone(i) ==
  /\ sends[i].pc = "read"
  /\ ~sends[i].aborted
  /\ loading' = FALSE
  /\ abortRef' = 0
  /\ sends' = [sends EXCEPT ![i].pc = "returned"]
  /\ UNCHANGED <<concVars, runVars, chatVars, input, messages, started>>

\* reader.read() rejects (the stream fails, or the abort): nothing catches it
ReadRejects(i) ==
  /\ sends[i].pc = "read"
  /\ sends' = [sends EXCEPT ![i].pc = "thrown"]
  /\ UNCHANGED <<concVars, runVars, chatVars, input, loading, abortRef, messages, started>>

\* stop(): abortRef.current?.abort(); setLoading(false)
Stop ==
  /\ loading
  /\ sends' = IF abortRef = 0 THEN sends
              ELSE [sends EXCEPT ![abortRef].aborted = TRUE]
  /\ loading' = FALSE
  /\ UNCHANGED <<concVars, runVars, chatVars, input, abortRef, messages, started>>

NextPage ==
  \/ Type
  \/ Send
  \/ \E i \in SendIds : FetchResolves(i)
  \/ \E i \in SendIds : FetchRejects(i)
  \/ \E i \in SendIds : TextResolves(i)
  \/ \E i \in SendIds : TextRejects(i)
  \/ \E i \in SendIds : ReadChunk(i)
  \/ \E i \in SendIds : ReadDone(i)
  \/ \E i \in SendIds : ReadRejects(i)
  \/ Stop

InitPage == Init /\ ~jsonOk

PageSpec == InitPage /\ [][NextPage]_vars

\* A pending promise is settled one way or the other; the user is not
\* obliged to type, send or stop.
PageFairness ==
  \A i \in SendIds :
    /\ WF_vars(FetchResolves(i) \/ FetchRejects(i))
    /\ WF_vars(TextResolves(i) \/ TextRejects(i))
    /\ WF_vars(ReadChunk(i) \/ ReadDone(i) \/ ReadRejects(i))

PageFairSpec == PageSpec /\ PageFairness

(* ------------------------------- claims -------------------------------- *)

IsResult(r) == DOMAIN r = {"status", "exitCode", "stdout", "stderr", "timedOut"}
IsError(r) == DOMAIN r = {"status", "error"}
Responded == pc = "done"
Recognized == {"python", "node", "c", "cpp", "java"}
ValidBody ==
  /\ jsonOk
  /\ body.language \in Recognized
  /\ body.code.defined /\ body.code.length >= 1 /\ body.code.length <= 300000

\* C1: on every exit path of the handler taken after the workspace was
\* created, the removal of the workspace has been carried out (here in its
\* weakest reading: fs.rm has at least been called).
C1_TeardownOnEveryExit == (Responded /\ created > 0) => rm # "idle"

\* C2: for a valid submission exactly one workspace is created and it has
\* already been removed when the response is produced (stated for the runs
\* that reach the result, where the teardown call is made).
C2_RemovedBeforeResponse ==
  (Responded /\ ValidBody /\ resp.status = 200) => (created = 1 /\ ws = "removed")

\* C3: in every result, timedOut is true iff the process was killed by the
\* deadline timer and both stdout and stderr are empty.
C3_TimedOutIffDeadlineKill ==
  (Responded /\ IsResult(resp)) =>
     (resp.timedOut <=>
        (killSignal = "SIGKILL" /\ resp.stdout = <<>> /\ resp.stderr = <<>>))

\* C4: the exit code reported for a deadline kill (137) is never reported
\* for a run whose process ended on its own.
C4_SentinelDistinguishable ==
  (Responded /\ IsResult(resp) /\ proc = "exited") => resp.exitCode # 137

\* C5: a submission whose language is absent or not one of the five
\* recognized ones is answered 400, and no workspace is created and no
\* process is launched for it.
C5_BadLanguageRejected ==
  (jsonOk /\ body.language \notin Recognized) =>
     /\ created = 0 /\ ws = "none"
     /\ launched = 0 /\ proc = "none" /\ container = "none"
     /\ Responded => (resp.status = 400 /\ IsError(resp))

C5_Witness ==
  /\ Responded /\ jsonOk /\ body.language = "ruby" /\ body.code.length = 1
  /\ resp.status = 400

\* C6: with a recognized language, a code that is absent or longer than
\* 300000 characters is answered 413 with no workspace and no process; a
\* code of exactly 300000 characters passes validation.
C6_BadCodeRejected ==
  (jsonOk /\ body.language \in Recognized) =>
     /\ (~body.code.defined \/ body.code.length > 300000) =>
          /\ created = 0 /\ ws = "none"
          /\ launched = 0 /\ proc = "none" /\ container = "none"
          /\ Responded => (resp.status = 413 /\ IsError(resp))
     /\ (body.code.defined /\ body.code.length = 300000) =>
          /\ resp.status \notin {400, 413}
          /\ Responded => resp.status \in {200, 500}

C6_Witness ==
  /\ Responded /\ jsonOk /\ body.language = "python"
  /\ body.code.defined /\ body.code.length = 300001
  /\ resp.status = 413 /\ created = 0

\* C7: a program that never exits and produces no output is force-killed
\* with SIGKILL by the deadline timer, not before the limit of 6000 ms, and
\* its result is exitCode 137, timedOut true, stdout "" and stderr "".
C7_SilentLoopTimesOut ==
  (Responded /\ launched > 0 /\ prog = NoExit /\ nOut = 0 /\ nErr = 0) =>
     /\ timer = "fired" /\ firedAt >= 6000
     /\ proc = "killed" /\ killSignal = "SIGKILL"
     /\ resp = [status |-> 200, exitCode |-> 137, stdout |-> <<>>,
                stderr |-> <<>>, timedOut |-> TRUE]

C7_Witness ==
  /\ Responded /\ launched = 1 /\ prog = NoExit /\ nOut = 0 /\ nErr = 0
  /\ proc = "killed" /\ resp.status = 200 /\ resp.timedOut

\* C8: when the response of a run is produced, the sandboxed process (the
\* container) of that run is no longer running.
C8_NoContainerLeftRunning == (Responded /\ launched > 0) => container # "running"

\* C9: a failure to launch the isolated process is answered with a 5xx
\* structured error, and never propagates as an unhandled fault.
C9_LaunchFailureReported ==
  proc = "failed" =>
     /\ ~fault
     /\ Responded => (resp.status = 500 /\ IsError(resp))

\* C10: every run whose process was launched and then terminated takes the
\* normal response path: status 200 and the result shape, never the error
\* shape, and no fault.
C10_TerminatedRunIsResult ==
  proc \in {"exited", "killed"} =>
     /\ ~fault
     /\ Responded => (resp.status = 200 /\ IsResult(resp))

C10_Witness ==
  /\ Responded /\ proc = "exited" /\ prog = 1 /\ nErr > 0
  /\ resp.status = 200 /\ resp.exitCode = 1

\* C11: all output the process wrote on stdout and on stderr before it
\* ended is present, in emission order per stream, in the returned stdout
\* and stderr; a force-killed run with captured output is returned with
\* timedOut false.
C11_OutputPreserved ==
  (Responded /\ IsResult(resp)) =>
     /\ resp.stdout = toString(sentOut)
     /\ resp.stderr = toString(sentErr)
     /\ (proc = "killed" /\ (sentOut # <<>> \/ sentErr # <<>>)) => ~resp.timedOut

\* C12: when the process exits on its own, the reported exitCode is its
\* natural exit code and the timer has not killed it; a program that prints
\* to stdout only and exits 0 yields exitCode 0, stdout equal to the printed
\* text, stderr "" and timedOut false.
C12_NaturalExitReported ==
  (Responded /\ IsResult(resp) /\ proc = "exited") =>
     /\ resp.exitCode = prog
     /\ killSignal = ""
     /\ (prog = 0 /\ sentOut # <<>> /\ sentErr = <<>>) =>
          resp = [status |-> 200, exitCode |-> 0, stdout |-> toString(sentOut),
                  stderr |-> <<>>, timedOut |-> FALSE]

\* C13: at every point of a run the accumulated stdout and the accumulated
\* stderr each stay within 300000 characters.
C13_AccumulatorsBounded ==
  length(stdout) <= 300000 /\ length(stderr) <= 300000

\* C15: for c and cpp the launched command copies the source from /workspace
\* to /tmp, compiles it there and executes the produced binary there, and
\* the mount of /tmp lets that execution happen (the run does not end with
\* the shell refused the exec of /tmp/main).
C15_CompiledRunsInScratch ==
  /\ (launched > 0 /\ body.language = "c") =>
       /\ args[Len(args)] =
            "cp /workspace/main.c /tmp && gcc -O2 -pipe /tmp/main.c -o /tmp/main && /tmp/main"
       /\ prog # 126
  /\ (launched > 0 /\ body.language = "cpp") =>
       /\ args[Len(args)] =
            "cp /workspace/main.cpp /tmp && g++ -O2 -pipe /tmp/main.cpp -o /tmp/main && /tmp/main"
       /\ prog # 126

\* C16: every process the launcher starts, for every language, carries the
\* mandatory constraints (no network, CPU and memory bounds, a process-count
\* bound, read-only root, all capabilities dropped, no new privileges, a
\* non-root user, the workspace mounted read-only), and the options do not
\* depend on the request: they are one fixed list around the workspace path.
Images == {"python:3.11-alpine", "node:20-alpine", "gcc:13", "openjdk:21-jdk-slim"}
ImageAt(a) == CHOOSE i \in 1..Len(a) : a[i] \in Images /\ \A j \in 1..(i - 1) : a[j] \notin Images
HasFlag(a, flag) == \E i \in 1..(ImageAt(a) - 1) : a[i] = flag
HasOpt(a, flag, value) == \E i \in 1..(ImageAt(a) - 2) : a[i] = flag /\ a[i + 1] = value

C16_ConstraintsOnEveryLaunch ==
  (proc # "none" /\ args # <<"throw">>) =>
     /\ args[1] = "run"
     /\ \E i \in 1..Len(args) : args[i] \in Images
     /\ HasOpt(args, "--network", "none")
     /\ HasOpt(args, "--cpus", "0.5")
     /\ HasOpt(args, "--memory", "256m")
     /\ HasOpt(args, "--pids-limit", "64")
     /\ HasFlag(args, "--read-only")
     /\ HasOpt(args, "--cap-drop", "ALL")
     /\ HasOpt(args, "--security-opt", "no-new-privileges")
     /\ HasOpt(args, "--user", "1000:1000")
     /\ HasOpt(args, "-v", dir \o ":/workspace:ro")
     /\ ~HasFlag(args, "--privileged")
     /\ SubSeq(args, 1, ImageAt(args) - 1) =
          << "run", "--rm", "--network", "none", "--cpus", "0.5",
             "--memory", "256m", "--pids-limit", "64", "--read-only",
             "--tmpfs", "/tmp:rw,nosuid,nodev,noexec,size=64m",
             "--cap-drop", "ALL", "--security-opt", "no-new-privileges",
             "-v", dir \o ":/workspace:ro", "-w", "/workspace",
             "--user", "1000:1000" >>

C16_Witness ==
  /\ launched = 1 /\ proc = "running" /\ body.language = "java"
  /\ body.stdin.defined /\ body.code.length = 300000
  /\ Len(args) = 27

\* C18: for every launched run the input stream of the process is closed
\* exactly once, after the supplied stdin text (if any) has been written at
\* most once, also when no stdin was supplied, and before the handler waits
\* for the process to end.
C18_StdinClosedOnce ==
  /\ launched > 0 =>
       /\ stdinEnds = 1 /\ stdinWrites <= 1
       /\ Cardinality({i \in DOMAIN stdinLog : stdinLog[i] = "end"}) = 1
       /\ stdinLog[Len(stdinLog)] = "end"
       /\ (body.stdin.defined /\ body.stdin.length > 0) => stdinLog = <<"write", "end">>
       /\ (~body.stdin.defined \/ body.stdin.length = 0) => stdinLog = <<"end">>
  /\ pc = "await_close" => stdinEnds = 1

C18_Witness ==
  /\ pc = "await_close" /\ launched = 1 /\ proc = "running"
  /\ ~body.stdin.defined /\ stdinLog = <<"end">>

\* C19: if the process has already exited on its own when the deadline
\* timer fires, before the close event is delivered, the reported exitCode
\* stays the natural exit code, not 137 in its place, and timedOut is false.
C19_ExitBeforeDeadlineWins ==
  (Responded /\ IsResult(resp) /\ proc = "exited" /\ timer = "fired") =>
     /\ resp.exitCode = prog
     /\ killSignal = ""
     /\ ~resp.timedOut

\* C20: on every path on which the deadline timer was armed, the timer is
\* cancelled or has already fired when the response is produced, so the
\* kill callback cannot run after the response.
C20_TimerSettledAtResponse ==
  (Responded /\ timer # "unset") =>
     /\ timer \in {"cleared", "fired"}
     /\ ~ENABLED TimerFire

C20_Witness ==
  /\ Responded /\ launched = 1 /\ timer = "cleared" /\ proc = "exited"
  /\ elapsed < 6000

\* C17: every request that passes validation eventually produces a
\* response (the timer fires and the events of the process are delivered).
C17_AcceptedEventuallyResponds == (pc = "mkdtemp") ~> (pc = "done")

\* C14: two requests in flight at the same time own distinct workspaces and
\* distinct processes, each response contains only output written by its
\* own process, and a request whose program loops forever does not keep
\* another request from going on and completing.
C14_NoInterference ==
  \A r \in Reqs :
    /\ \A q \in Reqs \ {r} :
         /\ (reqs[r].ws = "exists" /\ reqs[q].ws = "exists") =>
               reqs[r].dir # reqs[q].dir
         /\ (reqs[r].proc # "none" /\ reqs[q].proc # "none") =>
               reqs[r].child # reqs[q].child
    /\ (reqs[r].ws = "exists") => reqs[r].dir \in tmpDirs
    /\ IsResult(reqs[r].resp) =>
         /\ \A i \in DOMAIN reqs[r].resp.stdout : reqs[r].resp.stdout[i].by = r
         /\ reqs[r].resp.stderr = <<>>
    /\ reqs[r].pc = "mkdtemp" => ENABLED MkdtempC(r)
    /\ reqs[r].pc = "writeFile" => ENABLED LaunchC(r)
    /\ ( /\ reqs[r].pc = "await_close"
         /\ reqs[r].proc \in {"exited", "killed"}
         /\ reqs[r].pipeOut = <<>> ) => ENABLED CloseC(r)

C14_Witness ==
  /\ reqs[1].pc = "await_close" /\ reqs[1].proc = "running"
  /\ reqs[1].prog = NoExit /\ reqs[1].wrote
  /\ reqs[2].pc = "done" /\ reqs[2].resp.status = 200
  /\ reqs[2].proc = "exited" /\ Len(reqs[2].resp.stdout) = 1
  /\ reqs[1].ws = "exists" /\ reqs[2].ws = "exists"

\* C21: for each of the five languages the file written into the workspace
\* is the file the launched command reads from /workspace (main.py, main.js,
\* main.c, main.cpp, Main.java), and the command is fixed by the language
\* alone, whatever the code and the stdin of the submission.
RECURSIVE WordEnd(_, _)
\* the position of the last character of the word of s that starts at i
WordEnd(s, i) ==
  IF i >= Len(s) \/ SubSeq(s, i + 1, i + 1) = " " THEN i ELSE WordEnd(s, i + 1)
\* the name of the file under /workspace that the command of a opens: the
\* source of the cp of a shell command, or the script named to the
\* interpreter, relative to the working directory
WorkspaceFile(a) ==
  LET cmd == a[Len(a)]
      from == "cp /workspace/"
  IN IF a[Len(a) - 1] = "-lc"
       THEN IF Len(cmd) > Len(from) /\ SubSeq(cmd, 1, Len(from)) = from
              THEN SubSeq(cmd, Len(from) + 1, WordEnd(cmd, Len(from) + 1))
              ELSE ""
       ELSE IF HasOpt(a, "-w", "/workspace") THEN cmd ELSE ""
CommandOf(a) == SubSeq(a, ImageAt(a) + 1, Len(a))

C21_WrittenFileIsFileRun ==
  (launched > 0) =>
     /\ written = WorkspaceFile(args)
     /\ HasOpt(args, "-v", dir \o ":/workspace:ro")
     /\ body.language = "python" =>
          written = "main.py" /\ CommandOf(args) = <<"python", "main.py">>
     /\ body.language = "node" =>
          written = "main.js" /\ CommandOf(args) = <<"node", "main.js">>
     /\ body.language = "c" =>
          /\ written = "main.c"
          /\ CommandOf(args) = <<"/bin/sh", "-lc",
               "cp /workspace/main.c /tmp && gcc -O2 -pipe /tmp/main.c -o /tmp/main && /tmp/main">>
     /\ body.language = "cpp" =>
          /\ written = "main.cpp"
          /\ CommandOf(args) = <<"/bin/sh", "-lc",
               "cp /workspace/main.cpp /tmp && g++ -O2 -pipe /tmp/main.cpp -o /tmp/main && /tmp/main">>
     /\ body.language = "java" =>
          /\ written = "Main.java"
          /\ CommandOf(args) = <<"/bin/sh", "-lc",
               "cp /workspace/Main.java /tmp && javac -d /tmp /tmp/Main.java && cd /tmp && java Main">>

C21_Witness ==
  /\ launched = 1 /\ body.language = "cpp" /\ written = "main.cpp"
  /\ body.code.length = 1 /\ body.stdin.defined /\ body.stdin.length = 1
  /\ WorkspaceFile(args) = "main.cpp"

\* C22: the language is checked before the code: a submission failing both
\* checks is answered 400, one failing only the code check 413, and a
\* submission that fails either check never has a workspace created or a
\* process launched.
BadLanguage == body.language \notin {"python", "node", "c", "cpp", "java"}
BadCode == ~body.code.defined \/ body.code.length = 0 \/ body.code.length > 300000

C22_LanguageCheckedFirst ==
  (jsonOk /\ (BadLanguage \/ BadCode)) =>
     /\ pc \in {"req_json", "done"}
     /\ created = 0 /\ ws = "none" /\ written = ""
     /\ launched = 0 /\ proc = "none" /\ container = "none" /\ timer = "unset"
     /\ Responded =>
          /\ IsError(resp)
          /\ resp.status = IF BadLanguage THEN 400 ELSE 413
          /\ resp.error = IF BadLanguage THEN "Unsupported or missing language"
                                         ELSE "Missing code or too large"

C22_Witness ==
  /\ Responded /\ jsonOk
  /\ body.language = "ruby" /\ body.code.defined /\ body.code.length = 300001
  /\ resp.status = 400 /\ created = 0 /\ launched = 0

\* C23: the stream behind the chat proxy's response closes exactly once,
\* when the completion stream ends and when iterating it throws (then the
\* [error] chunk is enqueued just before the close), and no enqueue follows
\* the close.
CloseCalls == {i \in DOMAIN controller.calls : controller.calls[i].op = "close"}
Accepted(call) == call.op = "enqueue" /\ call.ok
RECURSIVE ChunksOf(_)
ChunksOf(calls) ==
  IF calls = <<>> THEN <<>>
  ELSE IF Accepted(Head(calls)) THEN <<Head(calls).chunk>> \o ChunksOf(Tail(calls))
       ELSE ChunksOf(Tail(calls))

C23_StreamClosedOnce ==
  LET calls == controller.calls
      n == Len(calls)
  IN /\ controller.closes <= 1
     /\ Cardinality(CloseCalls) <= 1
     /\ \A i \in CloseCalls : i = n
     /\ (controller.closeRequested \/ controller.state = "closed") =>
           Len(received) + Len(controller.queue) <= Len(ChunksOf(calls))
     /\ chatPc = "ended" =>
          /\ Cardinality(CloseCalls) = 1
          /\ controller.closeRequested \/ cancelled
          /\ controller.queue = <<>> =>
                (controller.state = "closed" /\ controller.closes = 1)
          /\ ~cancelled =>
                /\ calls[n].ok
                /\ received \o controller.queue = ChunksOf(calls)
                /\ threw =>
                     /\ n >= 2
                     /\ calls[n - 1] = [op |-> "enqueue", chunk |-> "[error]", ok |-> TRUE]

C23_Witness ==
  /\ chatPc = "ended" /\ threw /\ ~cancelled
  /\ controller.state = "closed" /\ controller.closes = 1
  /\ received = <<"tok", "[error]">>

C23_WitnessNormalEnd ==
  /\ chatPc = "ended" /\ ~threw /\ ~cancelled
  /\ controller.state = "closed" /\ controller.closes = 1
  /\ received = <<"tok", "tok">>

\* C24: while loading is true send() starts no request, and after every
\* send() loading eventually returns to false, whatever the outcome (network
\* error, failure response, stream read to its end, failed read, stop()).
C24_LoadingEventuallyFalse ==
  /\ [][loading => started' = started]_vars
  /\ loading ~> ~loading

\* the same, leaving out the reads that fail without a stop()
C24_LoadingFalseUnlessReadFails ==
  loading ~> (~loading \/ \E i \in SendIds : sends[i].pc = "thrown" /\ ~sends[i].aborted)

====
